---- MODULE Spec2Model ----
(***************************************************************************)
(* Elementwise trigonometric, inverse-trigonometric and hyperbolic         *)
(* functions over angle-tagged scalars and vectors of arity 2, 3 and 4     *)
(* (src/src/funs/triganomic.rs).                                           *)
(*                                                                         *)
(* Numbers are fixed-point: a finite value is an integer count of 1/Scale  *)
(* units.  An f64 or float value may be any such count; an f32 value is a  *)
(* multiple of F32Step units, so narrowing to f32 loses precision.  Values *)
(* beyond MaxMag saturate to PInf / NInf, and NaN is the not-a-number.     *)
(***************************************************************************)
EXTENDS Integers, Sequences, FiniteSets, TLC

VARIABLES mem, pc, op, via, ref, snap, parts, tr, res, last, depth

vars == <<mem, pc, op, via, ref, snap, parts, tr, res, last, depth>>

(***************************************************************************)
(* Bounds of the model.                                                    *)
(***************************************************************************)
\* coarse inputs are the whole numbers -1 .. MaxIn
MaxIn == 2
\* fine scalar inputs are the f32 grid points within MaxTheta f32 steps of 0
MaxTheta == 32
\* at most MaxChain results are fed back as the next argument
MaxChain == 1
\* concurrent callers
NCallers == 2
\* small inputs have whole-number components 0 .. MaxDet
MaxDet == 1

(***************************************************************************)
(* Floating-point representation.                                          *)
(***************************************************************************)
Scale == 64
F32Step == 4
MaxMag == 4 * Scale
PInf == MaxMag + 1
NInf == 0 - PInf
NaN == 2 * PInf

IsFinite(v) == v >= 0 - MaxMag /\ v <= MaxMag

Widths == {"f32", "f64", "float"}

\* nearest multiple of F32Step, ties to the even multiple
RoundF32(v) ==
  LET q == v \div F32Step
      r == v % F32Step
  IN  IF 2 * r < F32Step THEN q * F32Step
      ELSE IF 2 * r > F32Step THEN (q + 1) * F32Step
      ELSE IF q % 2 = 0 THEN q * F32Step ELSE (q + 1) * F32Step

\* num::cast::cast to the width w: total, silent precision loss on narrowing
cast(w, v) ==
  IF ~IsFinite(v) THEN v
  ELSE IF w = "f32" THEN RoundF32(v) ELSE v

\* NumCast::to_float: float has the f64 representation
to_float(v) == cast("float", v)

(***************************************************************************)
(* The native routines, tabulated on the grid (correctly rounded).         *)
(***************************************************************************)
f64_sin_tab ==
  << 48, 48, 47, 46, 46, 45, 44, 44, 43, 42, 41, 41, 40, 39, 38, 37, 37, 36, 35, 34, 33, 32, 32,
    31, 30, 29, 28, 27, 26, 25, 24, 23, 22, 22, 21, 20, 19, 18, 17, 16, 15, 14, 13, 12, 11, 10,
    9, 8, 7, 6, 5, 4, 3, 2, 1, 0, -1, -2, -3, -4, -5, -6, -7, -8, -9, -10, -11, -12, -13, -14,
    -15, -16, -17, -18, -19, -20, -21, -22, -23, -23, -24, -25, -26, -27, -28, -29, -30, -31,
    -32, -32, -33, -34, -35, -36, -37, -37, -38, -39, -40, -41, -41, -42, -43, -44, -44, -45,
    -46, -47, -47, -48, -49, -49, -50, -50, -51, -52, -52, -53, -53, -54, -54, -55, -55, -56,
    -56, -57, -57, -58, -58, -59, -59, -59, -60, -60, -60, -61, -61, -61, -62, -62, -62, -62,
    -63, -63, -63, -63, -63, -63, -64, -64, -64, -64, -64, -64, -64, -64, -64, -64, -64, -64,
    -64, -64, -64, -64, -63, -63, -63, -63, -63, -63, -62, -62, -62, -62, -61, -61, -61, -60,
    -60, -60, -59, -59, -59, -58, -58, -57, -57, -56, -56, -55, -55, -54, -54, -53, -53, -52,
    -52, -51, -50, -50, -49, -48, -48, -47, -46, -46, -45, -44, -44, -43, -42, -41, -41, -40,
    -39, -38, -37, -37, -36, -35, -34, -33, -32, -32, -31, -30, -29, -28, -27, -26, -25, -24,
    -23, -23, -22, -21, -20, -19, -18, -17, -16, -15, -14, -13, -12, -11, -10, -9, -8, -7, -6,
    -5, -4, -3, -2, -1, 0, 1, 2, 3, 4, 5, 6, 7, 8, 9, 10, 11, 12, 13, 14, 15, 16, 17, 18, 19,
    20, 21, 22, 23, 23, 24, 25, 26, 27, 28, 29, 30, 31, 32, 32, 33, 34, 35, 36, 37, 37, 38, 39,
    40, 41, 41, 42, 43, 44, 44, 45, 46, 46, 47, 48, 48, 49, 50, 50, 51, 52, 52, 53, 53, 54, 54,
    55, 55, 56, 56, 57, 57, 58, 58, 59, 59, 59, 60, 60, 60, 61, 61, 61, 62, 62, 62, 62, 63, 63,
    63, 63, 63, 63, 64, 64, 64, 64, 64, 64, 64, 64, 64, 64, 64, 64, 64, 64, 64, 64, 63, 63, 63,
    63, 63, 63, 62, 62, 62, 62, 61, 61, 61, 60, 60, 60, 59, 59, 59, 58, 58, 57, 57, 56, 56, 55,
    55, 54, 54, 53, 53, 52, 52, 51, 50, 50, 49, 49, 48, 47, 47, 46, 45, 44, 44, 43, 42, 41, 41,
    40, 39, 38, 37, 37, 36, 35, 34, 33, 32, 32, 31, 30, 29, 28, 27, 26, 25, 24, 23, 23, 22, 21,
    20, 19, 18, 17, 16, 15, 14, 13, 12, 11, 10, 9, 8, 7, 6, 5, 4, 3, 2, 1, 0, -1, -2, -3, -4,
    -5, -6, -7, -8, -9, -10, -11, -12, -13, -14, -15, -16, -17, -18, -19, -20, -21, -22, -22,
    -23, -24, -25, -26, -27, -28, -29, -30, -31, -32, -32, -33, -34, -35, -36, -37, -37, -38,
    -39, -40, -41, -41, -42, -43, -44, -44, -45, -46, -46, -47, -48, -48 >>

f64_cos_tab ==
  << -42, -43, -43, -44, -45, -45, -46, -47, -48, -48, -49, -50, -50, -51, -51, -52, -53, -53,
    -54, -54, -55, -55, -56, -56, -57, -57, -58, -58, -58, -59, -59, -60, -60, -60, -61, -61,
    -61, -62, -62, -62, -62, -62, -63, -63, -63, -63, -63, -64, -64, -64, -64, -64, -64, -64,
    -64, -64, -64, -64, -64, -64, -64, -64, -64, -63, -63, -63, -63, -63, -63, -62, -62, -62,
    -62, -61, -61, -61, -61, -60, -60, -60, -59, -59, -58, -58, -58, -57, -57, -56, -56, -55,
    -55, -54, -54, -53, -52, -52, -51, -51, -50, -49, -49, -48, -47, -47, -46, -45, -45, -44,
    -43, -42, -42, -41, -40, -39, -39, -38, -37, -36, -35, -35, -34, -33, -32, -31, -30, -29,
    -28, -28, -27, -26, -25, -24, -23, -22, -21, -20, -19, -18, -17, -16, -15, -14, -13, -12,
    -11, -10, -9, -8, -7, -6, -5, -4, -3, -2, -1, 0, 1, 2, 3, 4, 5, 6, 7, 8, 9, 9, 10, 11, 12,
    13, 14, 15, 16, 17, 18, 19, 20, 21, 22, 23, 24, 25, 26, 27, 28, 28, 29, 30, 31, 32, 33, 34,
    35, 35, 36, 37, 38, 39, 39, 40, 41, 42, 43, 43, 44, 45, 45, 46, 47, 48, 48, 49, 49, 50, 51,
    51, 52, 52, 53, 54, 54, 55, 55, 56, 56, 57, 57, 58, 58, 58, 59, 59, 60, 60, 60, 61, 61, 61,
    61, 62, 62, 62, 62, 63, 63, 63, 63, 63, 64, 64, 64, 64, 64, 64, 64, 64, 64, 64, 64, 64, 64,
    64, 64, 64, 64, 63, 63, 63, 63, 63, 62, 62, 62, 62, 61, 61, 61, 61, 60, 60, 60, 59, 59, 58,
    58, 58, 57, 57, 56, 56, 55, 55, 54, 54, 53, 52, 52, 51, 51, 50, 49, 49, 48, 48, 47, 46, 45,
    45, 44, 43, 43, 42, 41, 40, 39, 39, 38, 37, 36, 35, 35, 34, 33, 32, 31, 30, 29, 28, 28, 27,
    26, 25, 24, 23, 22, 21, 20, 19, 18, 17, 16, 15, 14, 13, 12, 11, 10, 9, 9, 8, 7, 6, 5, 4, 3,
    2, 1, 0, -1, -2, -3, -4, -5, -6, -7, -8, -9, -10, -11, -12, -13, -14, -15, -16, -17, -18,
    -19, -20, -21, -22, -23, -24, -25, -26, -27, -28, -28, -29, -30, -31, -32, -33, -34, -35,
    -35, -36, -37, -38, -39, -39, -40, -41, -42, -42, -43, -44, -45, -45, -46, -47, -47, -48,
    -49, -49, -50, -51, -51, -52, -52, -53, -54, -54, -55, -55, -56, -56, -57, -57, -58, -58,
    -58, -59, -59, -60, -60, -60, -61, -61, -61, -61, -62, -62, -62, -62, -63, -63, -63, -63,
    -63, -63, -64, -64, -64, -64, -64, -64, -64, -64, -64, -64, -64, -64, -64, -64, -64, -64,
    -63, -63, -63, -63, -63, -62, -62, -62, -62, -62, -61, -61, -61, -60, -60, -60, -59, -59,
    -58, -58, -58, -57, -57, -56, -56, -55, -55, -54, -54, -53, -53, -52, -51, -51, -50, -50,
    -49, -48, -48, -47, -46, -45, -45, -44, -43, -43, -42 >>

f64_tan_tab ==
  << -74, -72, -70, -67, -65, -63, -61, -60, -58, -56, -54, -52, -51, -49, -48, -46, -45, -43,
    -42, -40, -39, -38, -36, -35, -34, -32, -31, -30, -29, -27, -26, -25, -24, -23, -22, -21,
    -20, -18, -17, -16, -15, -14, -13, -12, -11, -10, -9, -8, -7, -6, -5, -4, -3, -2, -1, 0, 1,
    2, 3, 4, 5, 6, 7, 8, 9, 10, 11, 12, 13, 14, 15, 16, 17, 19, 20, 21, 22, 23, 24, 25, 26, 28,
    29, 30, 31, 32, 34, 35, 36, 38, 39, 40, 42, 43, 45, 46, 48, 49, 51, 53, 54, 56, 58, 60, 62,
    64, 66, 68, 70, 72, 74, 77, 79, 82, 85, 87, 90, 93, 97, 100, 103, 107, 111, 115, 119, 124,
    129, 134, 140, 146, 152, 159, 167, 175, 184, 193, 204, 216, 229, 243, 257, 257, 257, 257,
    257, 257, 257, 257, 257, 257, 257, 257, 257, 257, 257, 257, -257, -257, -257, -257, -257,
    -257, -257, -257, -257, -257, -257, -257, -257, -257, -257, -257, -242, -228, -215, -203,
    -193, -183, -174, -166, -159, -152, -145, -139, -134, -129, -124, -119, -115, -111, -107,
    -103, -100, -96, -93, -90, -87, -84, -82, -79, -77, -74, -72, -70, -68, -65, -63, -62, -60,
    -58, -56, -54, -53, -51, -49, -48, -46, -45, -43, -42, -40, -39, -38, -36, -35, -34, -32,
    -31, -30, -29, -28, -26, -25, -24, -23, -22, -21, -20, -18, -17, -16, -15, -14, -13, -12,
    -11, -10, -9, -8, -7, -6, -5, -4, -3, -2, -1, 0, 1, 2, 3, 4, 5, 6, 7, 8, 9, 10, 11, 12, 13,
    14, 15, 16, 17, 18, 20, 21, 22, 23, 24, 25, 26, 28, 29, 30, 31, 32, 34, 35, 36, 38, 39, 40,
    42, 43, 45, 46, 48, 49, 51, 53, 54, 56, 58, 60, 62, 63, 65, 68, 70, 72, 74, 77, 79, 82, 84,
    87, 90, 93, 96, 100, 103, 107, 111, 115, 119, 124, 129, 134, 139, 145, 152, 159, 166, 174,
    183, 193, 203, 215, 228, 242, 257, 257, 257, 257, 257, 257, 257, 257, 257, 257, 257, 257,
    257, 257, 257, 257, -257, -257, -257, -257, -257, -257, -257, -257, -257, -257, -257, -257,
    -257, -257, -257, -257, -243, -229, -216, -204, -193, -184, -175, -167, -159, -152, -146,
    -140, -134, -129, -124, -119, -115, -111, -107, -103, -100, -97, -93, -90, -87, -85, -82,
    -79, -77, -74, -72, -70, -68, -66, -64, -62, -60, -58, -56, -54, -53, -51, -49, -48, -46,
    -45, -43, -42, -40, -39, -38, -36, -35, -34, -32, -31, -30, -29, -28, -26, -25, -24, -23,
    -22, -21, -20, -19, -17, -16, -15, -14, -13, -12, -11, -10, -9, -8, -7, -6, -5, -4, -3, -2,
    -1, 0, 1, 2, 3, 4, 5, 6, 7, 8, 9, 10, 11, 12, 13, 14, 15, 16, 17, 18, 20, 21, 22, 23, 24,
    25, 26, 27, 29, 30, 31, 32, 34, 35, 36, 38, 39, 40, 42, 43, 45, 46, 48, 49, 51, 52, 54, 56,
    58, 60, 61, 63, 65, 67, 70, 72, 74 >>

f64_asin_tab ==
  << 514, 514, 514, 514, 514, 514, 514, 514, 514, 514, 514, 514, 514, 514, 514, 514, 514, 514,
    514, 514, 514, 514, 514, 514, 514, 514, 514, 514, 514, 514, 514, 514, 514, 514, 514, 514,
    514, 514, 514, 514, 514, 514, 514, 514, 514, 514, 514, 514, 514, 514, 514, 514, 514, 514,
    514, 514, 514, 514, 514, 514, 514, 514, 514, 514, 514, 514, 514, 514, 514, 514, 514, 514,
    514, 514, 514, 514, 514, 514, 514, 514, 514, 514, 514, 514, 514, 514, 514, 514, 514, 514,
    514, 514, 514, 514, 514, 514, 514, 514, 514, 514, 514, 514, 514, 514, 514, 514, 514, 514,
    514, 514, 514, 514, 514, 514, 514, 514, 514, 514, 514, 514, 514, 514, 514, 514, 514, 514,
    514, 514, 514, 514, 514, 514, 514, 514, 514, 514, 514, 514, 514, 514, 514, 514, 514, 514,
    514, 514, 514, 514, 514, 514, 514, 514, 514, 514, 514, 514, 514, 514, 514, 514, 514, 514,
    514, 514, 514, 514, 514, 514, 514, 514, 514, 514, 514, 514, 514, 514, 514, 514, 514, 514,
    514, 514, 514, 514, 514, 514, 514, 514, 514, 514, 514, 514, -101, -89, -84, -81, -78, -75,
    -73, -70, -68, -66, -64, -62, -61, -59, -57, -56, -54, -53, -51, -50, -49, -47, -46, -44,
    -43, -42, -41, -39, -38, -37, -36, -35, -34, -32, -31, -30, -29, -28, -27, -26, -25, -24,
    -22, -21, -20, -19, -18, -17, -16, -15, -14, -13, -12, -11, -10, -9, -8, -7, -6, -5, -4, -3,
    -2, -1, 0, 1, 2, 3, 4, 5, 6, 7, 8, 9, 10, 11, 12, 13, 14, 15, 16, 17, 18, 19, 20, 21, 22,
    24, 25, 26, 27, 28, 29, 30, 31, 32, 34, 35, 36, 37, 38, 39, 41, 42, 43, 44, 46, 47, 49, 50,
    51, 53, 54, 56, 57, 59, 61, 62, 64, 66, 68, 70, 73, 75, 78, 81, 84, 89, 101, 514, 514, 514,
    514, 514, 514, 514, 514, 514, 514, 514, 514, 514, 514, 514, 514, 514, 514, 514, 514, 514,
    514, 514, 514, 514, 514, 514, 514, 514, 514, 514, 514, 514, 514, 514, 514, 514, 514, 514,
    514, 514, 514, 514, 514, 514, 514, 514, 514, 514, 514, 514, 514, 514, 514, 514, 514, 514,
    514, 514, 514, 514, 514, 514, 514, 514, 514, 514, 514, 514, 514, 514, 514, 514, 514, 514,
    514, 514, 514, 514, 514, 514, 514, 514, 514, 514, 514, 514, 514, 514, 514, 514, 514, 514,
    514, 514, 514, 514, 514, 514, 514, 514, 514, 514, 514, 514, 514, 514, 514, 514, 514, 514,
    514, 514, 514, 514, 514, 514, 514, 514, 514, 514, 514, 514, 514, 514, 514, 514, 514, 514,
    514, 514, 514, 514, 514, 514, 514, 514, 514, 514, 514, 514, 514, 514, 514, 514, 514, 514,
    514, 514, 514, 514, 514, 514, 514, 514, 514, 514, 514, 514, 514, 514, 514, 514, 514, 514,
    514, 514, 514, 514, 514, 514, 514, 514, 514, 514, 514, 514, 514, 514, 514, 514, 514, 514,
    514, 514, 514, 514, 514, 514, 514, 514, 514 >>

f64_acos_tab ==
  << 514, 514, 514, 514, 514, 514, 514, 514, 514, 514, 514, 514, 514, 514, 514, 514, 514, 514,
    514, 514, 514, 514, 514, 514, 514, 514, 514, 514, 514, 514, 514, 514, 514, 514, 514, 514,
    514, 514, 514, 514, 514, 514, 514, 514, 514, 514, 514, 514, 514, 514, 514, 514, 514, 514,
    514, 514, 514, 514, 514, 514, 514, 514, 514, 514, 514, 514, 514, 514, 514, 514, 514, 514,
    514, 514, 514, 514, 514, 514, 514, 514, 514, 514, 514, 514, 514, 514, 514, 514, 514, 514,
    514, 514, 514, 514, 514, 514, 514, 514, 514, 514, 514, 514, 514, 514, 514, 514, 514, 514,
    514, 514, 514, 514, 514, 514, 514, 514, 514, 514, 514, 514, 514, 514, 514, 514, 514, 514,
    514, 514, 514, 514, 514, 514, 514, 514, 514, 514, 514, 514, 514, 514, 514, 514, 514, 514,
    514, 514, 514, 514, 514, 514, 514, 514, 514, 514, 514, 514, 514, 514, 514, 514, 514, 514,
    514, 514, 514, 514, 514, 514, 514, 514, 514, 514, 514, 514, 514, 514, 514, 514, 514, 514,
    514, 514, 514, 514, 514, 514, 514, 514, 514, 514, 514, 514, 201, 190, 185, 181, 178, 176,
    173, 171, 169, 167, 165, 163, 161, 160, 158, 156, 155, 153, 152, 150, 149, 148, 146, 145,
    144, 142, 141, 140, 139, 138, 136, 135, 134, 133, 132, 131, 130, 128, 127, 126, 125, 124,
    123, 122, 121, 120, 119, 118, 117, 116, 115, 114, 113, 112, 111, 110, 109, 108, 107, 106,
    105, 104, 103, 102, 101, 100, 99, 98, 97, 96, 95, 94, 93, 92, 90, 89, 88, 87, 86, 85, 84,
    83, 82, 81, 80, 79, 78, 77, 76, 75, 74, 73, 72, 70, 69, 68, 67, 66, 65, 63, 62, 61, 60, 59,
    57, 56, 55, 53, 52, 51, 49, 48, 46, 45, 43, 42, 40, 38, 36, 34, 32, 30, 28, 25, 23, 20, 16,
    11, 0, 514, 514, 514, 514, 514, 514, 514, 514, 514, 514, 514, 514, 514, 514, 514, 514, 514,
    514, 514, 514, 514, 514, 514, 514, 514, 514, 514, 514, 514, 514, 514, 514, 514, 514, 514,
    514, 514, 514, 514, 514, 514, 514, 514, 514, 514, 514, 514, 514, 514, 514, 514, 514, 514,
    514, 514, 514, 514, 514, 514, 514, 514, 514, 514, 514, 514, 514, 514, 514, 514, 514, 514,
    514, 514, 514, 514, 514, 514, 514, 514, 514, 514, 514, 514, 514, 514, 514, 514, 514, 514,
    514, 514, 514, 514, 514, 514, 514, 514, 514, 514, 514, 514, 514, 514, 514, 514, 514, 514,
    514, 514, 514, 514, 514, 514, 514, 514, 514, 514, 514, 514, 514, 514, 514, 514, 514, 514,
    514, 514, 514, 514, 514, 514, 514, 514, 514, 514, 514, 514, 514, 514, 514, 514, 514, 514,
    514, 514, 514, 514, 514, 514, 514, 514, 514, 514, 514, 514, 514, 514, 514, 514, 514, 514,
    514, 514, 514, 514, 514, 514, 514, 514, 514, 514, 514, 514, 514, 514, 514, 514, 514, 514,
    514, 514, 514, 514, 514, 514, 514, 514, 514, 514, 514, 514, 514 >>

f64_atan_tab ==
  << -85, -85, -85, -85, -85, -85, -84, -84, -84, -84, -84, -84, -84, -84, -84, -84, -84, -84,
    -84, -84, -84, -84, -83, -83, -83, -83, -83, -83, -83, -83, -83, -83, -83, -83, -83, -82,
    -82, -82, -82, -82, -82, -82, -82, -82, -82, -82, -82, -82, -81, -81, -81, -81, -81, -81,
    -81, -81, -81, -81, -81, -80, -80, -80, -80, -80, -80, -80, -80, -80, -80, -79, -79, -79,
    -79, -79, -79, -79, -79, -79, -78, -78, -78, -78, -78, -78, -78, -78, -77, -77, -77, -77,
    -77, -77, -77, -77, -76, -76, -76, -76, -76, -76, -76, -75, -75, -75, -75, -75, -75, -75,
    -74, -74, -74, -74, -74, -74, -73, -73, -73, -73, -73, -73, -72, -72, -72, -72, -72, -71,
    -71, -71, -71, -71, -70, -70, -70, -70, -70, -69, -69, -69, -69, -68, -68, -68, -68, -68,
    -67, -67, -67, -67, -66, -66, -66, -65, -65, -65, -65, -64, -64, -64, -64, -63, -63, -63,
    -62, -62, -62, -61, -61, -61, -60, -60, -60, -59, -59, -58, -58, -58, -57, -57, -57, -56,
    -56, -55, -55, -54, -54, -54, -53, -53, -52, -52, -51, -51, -50, -50, -49, -49, -48, -48,
    -47, -47, -46, -45, -45, -44, -44, -43, -42, -42, -41, -41, -40, -39, -39, -38, -37, -36,
    -36, -35, -34, -34, -33, -32, -31, -30, -30, -29, -28, -27, -26, -26, -25, -24, -23, -22,
    -21, -20, -19, -18, -18, -17, -16, -15, -14, -13, -12, -11, -10, -9, -8, -7, -6, -5, -4, -3,
    -2, -1, 0, 1, 2, 3, 4, 5, 6, 7, 8, 9, 10, 11, 12, 13, 14, 15, 16, 17, 18, 18, 19, 20, 21,
    22, 23, 24, 25, 26, 26, 27, 28, 29, 30, 30, 31, 32, 33, 34, 34, 35, 36, 36, 37, 38, 39, 39,
    40, 41, 41, 42, 42, 43, 44, 44, 45, 45, 46, 47, 47, 48, 48, 49, 49, 50, 50, 51, 51, 52, 52,
    53, 53, 54, 54, 54, 55, 55, 56, 56, 57, 57, 57, 58, 58, 58, 59, 59, 60, 60, 60, 61, 61, 61,
    62, 62, 62, 63, 63, 63, 64, 64, 64, 64, 65, 65, 65, 65, 66, 66, 66, 67, 67, 67, 67, 68, 68,
    68, 68, 68, 69, 69, 69, 69, 70, 70, 70, 70, 70, 71, 71, 71, 71, 71, 72, 72, 72, 72, 72, 73,
    73, 73, 73, 73, 73, 74, 74, 74, 74, 74, 74, 75, 75, 75, 75, 75, 75, 75, 76, 76, 76, 76, 76,
    76, 76, 77, 77, 77, 77, 77, 77, 77, 77, 78, 78, 78, 78, 78, 78, 78, 78, 79, 79, 79, 79, 79,
    79, 79, 79, 79, 80, 80, 80, 80, 80, 80, 80, 80, 80, 80, 81, 81, 81, 81, 81, 81, 81, 81, 81,
    81, 81, 82, 82, 82, 82, 82, 82, 82, 82, 82, 82, 82, 82, 82, 83, 83, 83, 83, 83, 83, 83, 83,
    83, 83, 83, 83, 83, 84, 84, 84, 84, 84, 84, 84, 84, 84, 84, 84, 84, 84, 84, 84, 84, 85, 85,
    85, 85, 85, 85 >>

f64_sinh_tab ==
  << -257, -257, -257, -257, -257, -257, -257, -257, -257, -257, -257, -257, -257, -257, -257,
    -257, -257, -257, -257, -257, -257, -257, -257, -257, -257, -257, -257, -257, -257, -257,
    -257, -257, -257, -257, -257, -257, -257, -257, -257, -257, -257, -257, -257, -257, -257,
    -257, -257, -257, -257, -257, -257, -257, -257, -257, -257, -257, -257, -257, -257, -257,
    -257, -257, -257, -257, -257, -257, -257, -257, -257, -257, -257, -257, -257, -257, -257,
    -257, -257, -257, -257, -257, -257, -257, -257, -257, -257, -257, -257, -257, -257, -257,
    -257, -257, -257, -257, -257, -257, -257, -257, -257, -257, -257, -257, -257, -257, -257,
    -257, -257, -257, -257, -257, -257, -257, -257, -257, -257, -257, -257, -257, -257, -257,
    -257, -257, -256, -252, -248, -244, -240, -236, -232, -228, -225, -221, -218, -214, -211,
    -207, -204, -200, -197, -194, -191, -188, -185, -182, -179, -176, -173, -170, -167, -164,
    -162, -159, -156, -154, -151, -148, -146, -143, -141, -139, -136, -134, -132, -129, -127,
    -125, -123, -121, -118, -116, -114, -112, -110, -108, -106, -104, -103, -101, -99, -97, -95,
    -93, -92, -90, -88, -86, -85, -83, -82, -80, -78, -77, -75, -74, -72, -71, -69, -68, -66,
    -65, -63, -62, -61, -59, -58, -57, -55, -54, -53, -51, -50, -49, -48, -46, -45, -44, -43,
    -41, -40, -39, -38, -37, -36, -34, -33, -32, -31, -30, -29, -28, -27, -26, -25, -23, -22,
    -21, -20, -19, -18, -17, -16, -15, -14, -13, -12, -11, -10, -9, -8, -7, -6, -5, -4, -3, -2,
    -1, 0, 1, 2, 3, 4, 5, 6, 7, 8, 9, 10, 11, 12, 13, 14, 15, 16, 17, 18, 19, 20, 21, 22, 23,
    25, 26, 27, 28, 29, 30, 31, 32, 33, 34, 36, 37, 38, 39, 40, 41, 43, 44, 45, 46, 48, 49, 50,
    51, 53, 54, 55, 57, 58, 59, 61, 62, 63, 65, 66, 68, 69, 71, 72, 74, 75, 77, 78, 80, 82, 83,
    85, 86, 88, 90, 92, 93, 95, 97, 99, 101, 103, 104, 106, 108, 110, 112, 114, 116, 118, 121,
    123, 125, 127, 129, 132, 134, 136, 139, 141, 143, 146, 148, 151, 154, 156, 159, 162, 164,
    167, 170, 173, 176, 179, 182, 185, 188, 191, 194, 197, 200, 204, 207, 211, 214, 218, 221,
    225, 228, 232, 236, 240, 244, 248, 252, 256, 257, 257, 257, 257, 257, 257, 257, 257, 257,
    257, 257, 257, 257, 257, 257, 257, 257, 257, 257, 257, 257, 257, 257, 257, 257, 257, 257,
    257, 257, 257, 257, 257, 257, 257, 257, 257, 257, 257, 257, 257, 257, 257, 257, 257, 257,
    257, 257, 257, 257, 257, 257, 257, 257, 257, 257, 257, 257, 257, 257, 257, 257, 257, 257,
    257, 257, 257, 257, 257, 257, 257, 257, 257, 257, 257, 257, 257, 257, 257, 257, 257, 257,
    257, 257, 257, 257, 257, 257, 257, 257, 257, 257, 257, 257, 257, 257, 257, 257, 257, 257,
    257, 257, 257, 257, 257, 257, 257, 257, 257, 257, 257, 257, 257, 257, 257, 257, 257, 257,
    257, 257, 257, 257, 257 >>

f64_cosh_tab ==
  << 257, 257, 257, 257, 257, 257, 257, 257, 257, 257, 257, 257, 257, 257, 257, 257, 257, 257,
    257, 257, 257, 257, 257, 257, 257, 257, 257, 257, 257, 257, 257, 257, 257, 257, 257, 257,
    257, 257, 257, 257, 257, 257, 257, 257, 257, 257, 257, 257, 257, 257, 257, 257, 257, 257,
    257, 257, 257, 257, 257, 257, 257, 257, 257, 257, 257, 257, 257, 257, 257, 257, 257, 257,
    257, 257, 257, 257, 257, 257, 257, 257, 257, 257, 257, 257, 257, 257, 257, 257, 257, 257,
    257, 257, 257, 257, 257, 257, 257, 257, 257, 257, 257, 257, 257, 257, 257, 257, 257, 257,
    257, 257, 257, 257, 257, 257, 257, 257, 257, 257, 257, 257, 257, 257, 257, 257, 256, 252,
    248, 244, 241, 237, 234, 230, 227, 223, 220, 217, 214, 210, 207, 204, 201, 198, 195, 193,
    190, 187, 184, 182, 179, 176, 174, 171, 169, 166, 164, 162, 159, 157, 155, 153, 151, 148,
    146, 144, 142, 140, 138, 137, 135, 133, 131, 129, 128, 126, 124, 122, 121, 119, 118, 116,
    115, 113, 112, 110, 109, 108, 106, 105, 104, 102, 101, 100, 99, 98, 96, 95, 94, 93, 92, 91,
    90, 89, 88, 87, 86, 85, 85, 84, 83, 82, 81, 80, 80, 79, 78, 78, 77, 76, 76, 75, 74, 74, 73,
    73, 72, 72, 71, 71, 70, 70, 69, 69, 69, 68, 68, 67, 67, 67, 67, 66, 66, 66, 66, 65, 65, 65,
    65, 65, 65, 64, 64, 64, 64, 64, 64, 64, 64, 64, 64, 64, 64, 64, 64, 64, 65, 65, 65, 65, 65,
    65, 66, 66, 66, 66, 67, 67, 67, 67, 68, 68, 69, 69, 69, 70, 70, 71, 71, 72, 72, 73, 73, 74,
    74, 75, 76, 76, 77, 78, 78, 79, 80, 80, 81, 82, 83, 84, 85, 85, 86, 87, 88, 89, 90, 91, 92,
    93, 94, 95, 96, 98, 99, 100, 101, 102, 104, 105, 106, 108, 109, 110, 112, 113, 115, 116,
    118, 119, 121, 122, 124, 126, 128, 129, 131, 133, 135, 137, 138, 140, 142, 144, 146, 148,
    151, 153, 155, 157, 159, 162, 164, 166, 169, 171, 174, 176, 179, 182, 184, 187, 190, 193,
    195, 198, 201, 204, 207, 210, 214, 217, 220, 223, 227, 230, 234, 237, 241, 244, 248, 252,
    256, 257, 257, 257, 257, 257, 257, 257, 257, 257, 257, 257, 257, 257, 257, 257, 257, 257,
    257, 257, 257, 257, 257, 257, 257, 257, 257, 257, 257, 257, 257, 257, 257, 257, 257, 257,
    257, 257, 257, 257, 257, 257, 257, 257, 257, 257, 257, 257, 257, 257, 257, 257, 257, 257,
    257, 257, 257, 257, 257, 257, 257, 257, 257, 257, 257, 257, 257, 257, 257, 257, 257, 257,
    257, 257, 257, 257, 257, 257, 257, 257, 257, 257, 257, 257, 257, 257, 257, 257, 257, 257,
    257, 257, 257, 257, 257, 257, 257, 257, 257, 257, 257, 257, 257, 257, 257, 257, 257, 257,
    257, 257, 257, 257, 257, 257, 257, 257, 257, 257, 257, 257, 257, 257, 257, 257, 257 >>

f64_tanh_tab ==
  << -64, -64, -64, -64, -64, -64, -64, -64, -64, -64, -64, -64, -64, -64, -64, -64, -64, -64,
    -64, -64, -64, -64, -64, -64, -64, -64, -64, -64, -64, -64, -64, -64, -64, -64, -64, -64,
    -64, -64, -64, -64, -64, -64, -64, -64, -64, -64, -64, -64, -64, -64, -64, -64, -64, -64,
    -64, -64, -64, -64, -64, -64, -64, -64, -64, -64, -64, -64, -64, -64, -64, -64, -64, -64,
    -64, -64, -64, -64, -64, -64, -64, -63, -63, -63, -63, -63, -63, -63, -63, -63, -63, -63,
    -63, -63, -63, -63, -63, -63, -63, -63, -63, -63, -63, -63, -63, -63, -63, -63, -63, -63,
    -63, -63, -63, -63, -63, -63, -63, -62, -62, -62, -62, -62, -62, -62, -62, -62, -62, -62,
    -62, -62, -62, -62, -62, -61, -61, -61, -61, -61, -61, -61, -61, -61, -61, -61, -60, -60,
    -60, -60, -60, -60, -60, -60, -60, -59, -59, -59, -59, -59, -59, -58, -58, -58, -58, -58,
    -58, -57, -57, -57, -57, -57, -56, -56, -56, -56, -55, -55, -55, -55, -54, -54, -54, -53,
    -53, -53, -52, -52, -52, -51, -51, -51, -50, -50, -50, -49, -49, -48, -48, -47, -47, -47,
    -46, -46, -45, -45, -44, -43, -43, -42, -42, -41, -41, -40, -39, -39, -38, -38, -37, -36,
    -35, -35, -34, -33, -33, -32, -31, -30, -30, -29, -28, -27, -26, -26, -25, -24, -23, -22,
    -21, -20, -19, -18, -18, -17, -16, -15, -14, -13, -12, -11, -10, -9, -8, -7, -6, -5, -4, -3,
    -2, -1, 0, 1, 2, 3, 4, 5, 6, 7, 8, 9, 10, 11, 12, 13, 14, 15, 16, 17, 18, 18, 19, 20, 21,
    22, 23, 24, 25, 26, 26, 27, 28, 29, 30, 30, 31, 32, 33, 33, 34, 35, 35, 36, 37, 38, 38, 39,
    39, 40, 41, 41, 42, 42, 43, 43, 44, 45, 45, 46, 46, 47, 47, 47, 48, 48, 49, 49, 50, 50, 50,
    51, 51, 51, 52, 52, 52, 53, 53, 53, 54, 54, 54, 55, 55, 55, 55, 56, 56, 56, 56, 57, 57, 57,
    57, 57, 58, 58, 58, 58, 58, 58, 59, 59, 59, 59, 59, 59, 60, 60, 60, 60, 60, 60, 60, 60, 60,
    61, 61, 61, 61, 61, 61, 61, 61, 61, 61, 61, 62, 62, 62, 62, 62, 62, 62, 62, 62, 62, 62, 62,
    62, 62, 62, 62, 63, 63, 63, 63, 63, 63, 63, 63, 63, 63, 63, 63, 63, 63, 63, 63, 63, 63, 63,
    63, 63, 63, 63, 63, 63, 63, 63, 63, 63, 63, 63, 63, 63, 63, 63, 63, 64, 64, 64, 64, 64, 64,
    64, 64, 64, 64, 64, 64, 64, 64, 64, 64, 64, 64, 64, 64, 64, 64, 64, 64, 64, 64, 64, 64, 64,
    64, 64, 64, 64, 64, 64, 64, 64, 64, 64, 64, 64, 64, 64, 64, 64, 64, 64, 64, 64, 64, 64, 64,
    64, 64, 64, 64, 64, 64, 64, 64, 64, 64, 64, 64, 64, 64, 64, 64, 64, 64, 64, 64, 64, 64, 64,
    64, 64, 64, 64 >>

f32_asin_tab ==
  << 514, 514, 514, 514, 514, 514, 514, 514, 514, 514, 514, 514, 514, 514, 514, 514, 514, 514,
    514, 514, 514, 514, 514, 514, 514, 514, 514, 514, 514, 514, 514, 514, 514, 514, 514, 514,
    514, 514, 514, 514, 514, 514, 514, 514, 514, 514, 514, 514, -100, -76, -68, -60, -56, -48,
    -44, -40, -32, -28, -24, -20, -16, -12, -8, -4, 0, 4, 8, 12, 16, 20, 24, 28, 32, 40, 44, 48,
    56, 60, 68, 76, 100, 514, 514, 514, 514, 514, 514, 514, 514, 514, 514, 514, 514, 514, 514,
    514, 514, 514, 514, 514, 514, 514, 514, 514, 514, 514, 514, 514, 514, 514, 514, 514, 514,
    514, 514, 514, 514, 514, 514, 514, 514, 514, 514, 514, 514, 514, 514, 514, 514 >>

f32_acos_tab ==
  << 514, 514, 514, 514, 514, 514, 514, 514, 514, 514, 514, 514, 514, 514, 514, 514, 514, 514,
    514, 514, 514, 514, 514, 514, 514, 514, 514, 514, 514, 514, 514, 514, 514, 514, 514, 514,
    514, 514, 514, 514, 514, 514, 514, 514, 514, 514, 514, 514, 200, 180, 168, 160, 156, 148,
    144, 140, 136, 128, 124, 120, 116, 112, 108, 104, 100, 96, 92, 88, 84, 80, 76, 72, 68, 64,
    56, 52, 48, 40, 32, 24, 0, 514, 514, 514, 514, 514, 514, 514, 514, 514, 514, 514, 514, 514,
    514, 514, 514, 514, 514, 514, 514, 514, 514, 514, 514, 514, 514, 514, 514, 514, 514, 514,
    514, 514, 514, 514, 514, 514, 514, 514, 514, 514, 514, 514, 514, 514, 514, 514, 514 >>

f32_atan_tab ==
  << -84, -84, -84, -84, -84, -84, -84, -84, -84, -84, -84, -80, -80, -80, -80, -80, -80, -80,
    -80, -80, -80, -76, -76, -76, -76, -76, -76, -76, -72, -72, -72, -72, -72, -72, -68, -68,
    -68, -68, -64, -64, -64, -60, -60, -60, -56, -56, -56, -52, -52, -48, -48, -44, -40, -40,
    -36, -32, -28, -28, -24, -20, -16, -12, -8, -4, 0, 4, 8, 12, 16, 20, 24, 28, 28, 32, 36, 40,
    40, 44, 48, 48, 52, 52, 56, 56, 56, 60, 60, 60, 64, 64, 64, 68, 68, 68, 68, 72, 72, 72, 72,
    72, 72, 76, 76, 76, 76, 76, 76, 76, 80, 80, 80, 80, 80, 80, 80, 80, 80, 80, 84, 84, 84, 84,
    84, 84, 84, 84, 84, 84, 84 >>

f32_sinh_tab ==
  << -257, -257, -257, -257, -257, -257, -257, -257, -257, -257, -257, -257, -257, -257, -257,
    -257, -257, -257, -257, -257, -257, -257, -257, -257, -257, -257, -257, -257, -257, -257,
    -257, -248, -232, -216, -204, -192, -180, -168, -156, -144, -136, -128, -120, -112, -104,
    -96, -88, -80, -76, -68, -64, -56, -52, -48, -44, -36, -32, -28, -24, -20, -16, -12, -8, -4,
    0, 4, 8, 12, 16, 20, 24, 28, 32, 36, 44, 48, 52, 56, 64, 68, 76, 80, 88, 96, 104, 112, 120,
    128, 136, 144, 156, 168, 180, 192, 204, 216, 232, 248, 257, 257, 257, 257, 257, 257, 257,
    257, 257, 257, 257, 257, 257, 257, 257, 257, 257, 257, 257, 257, 257, 257, 257, 257, 257,
    257, 257, 257, 257, 257, 257 >>

f32_cosh_tab ==
  << 257, 257, 257, 257, 257, 257, 257, 257, 257, 257, 257, 257, 257, 257, 257, 257, 257, 257,
    257, 257, 257, 257, 257, 257, 257, 257, 257, 257, 257, 257, 257, 256, 240, 228, 212, 200,
    188, 180, 168, 160, 152, 144, 136, 128, 120, 116, 108, 104, 100, 96, 92, 88, 84, 80, 76, 76,
    72, 72, 68, 68, 68, 64, 64, 64, 64, 64, 64, 64, 68, 68, 68, 72, 72, 76, 76, 80, 84, 88, 92,
    96, 100, 104, 108, 116, 120, 128, 136, 144, 152, 160, 168, 180, 188, 200, 212, 228, 240,
    256, 257, 257, 257, 257, 257, 257, 257, 257, 257, 257, 257, 257, 257, 257, 257, 257, 257,
    257, 257, 257, 257, 257, 257, 257, 257, 257, 257, 257, 257, 257, 257 >>

f32_tanh_tab ==
  << -64, -64, -64, -64, -64, -64, -64, -64, -64, -64, -64, -64, -64, -64, -64, -64, -64, -64,
    -64, -64, -64, -64, -64, -64, -64, -64, -64, -64, -64, -64, -64, -60, -60, -60, -60, -60,
    -60, -60, -60, -60, -56, -56, -56, -56, -56, -52, -52, -52, -48, -48, -44, -44, -40, -40,
    -36, -32, -28, -28, -24, -20, -16, -12, -8, -4, 0, 4, 8, 12, 16, 20, 24, 28, 28, 32, 36, 40,
    40, 44, 44, 48, 48, 52, 52, 52, 56, 56, 56, 56, 56, 60, 60, 60, 60, 60, 60, 60, 60, 60, 64,
    64, 64, 64, 64, 64, 64, 64, 64, 64, 64, 64, 64, 64, 64, 64, 64, 64, 64, 64, 64, 64, 64, 64,
    64, 64, 64, 64, 64, 64, 64 >>

Lookup64(tab, v) == tab[v + MaxMag + 1]

Lookup32(tab, v) == tab[((v + MaxMag) \div F32Step) + 1]

\* f64::sin, f64::cos, ... : the canonical-width routines
f64_native(f, v) ==
  IF v = NaN THEN NaN
  ELSE IF ~IsFinite(v) THEN
    CASE f \in {"sin", "cos", "tan", "asin", "acos"} -> NaN
      [] f = "atan" -> IF v = PInf THEN Lookup64(f64_atan_tab, MaxMag)
                                   ELSE Lookup64(f64_atan_tab, 0 - MaxMag)
      [] f = "sinh" -> v
      [] f = "cosh" -> PInf
      [] f = "tanh" -> IF v = PInf THEN Scale ELSE 0 - Scale
  ELSE
    CASE f = "sin" -> Lookup64(f64_sin_tab, v)
      [] f = "cos" -> Lookup64(f64_cos_tab, v)
      [] f = "tan" -> Lookup64(f64_tan_tab, v)
      [] f = "asin" -> Lookup64(f64_asin_tab, v)
      [] f = "acos" -> Lookup64(f64_acos_tab, v)
      [] f = "atan" -> Lookup64(f64_atan_tab, v)
      [] f = "sinh" -> Lookup64(f64_sinh_tab, v)
      [] f = "cosh" -> Lookup64(f64_cosh_tab, v)
      [] f = "tanh" -> Lookup64(f64_tanh_tab, v)

\* f32::asin, f32::acos, ... : the single-precision routines
f32_native(f, v) ==
  IF v = NaN THEN NaN
  ELSE IF ~IsFinite(v) THEN
    CASE f \in {"asin", "acos"} -> NaN
      [] f = "atan" -> IF v = PInf THEN Lookup32(f32_atan_tab, MaxMag)
                                   ELSE Lookup32(f32_atan_tab, 0 - MaxMag)
      [] f = "sinh" -> v
      [] f = "cosh" -> PInf
      [] f = "tanh" -> IF v = PInf THEN Scale ELSE 0 - Scale
  ELSE
    CASE f = "asin" -> Lookup32(f32_asin_tab, v)
      [] f = "acos" -> Lookup32(f32_acos_tab, v)
      [] f = "atan" -> Lookup32(f32_atan_tab, v)
      [] f = "sinh" -> Lookup32(f32_sinh_tab, v)
      [] f = "cosh" -> Lookup32(f32_cosh_tab, v)
      [] f = "tanh" -> Lookup32(f32_tanh_tab, v)

(***************************************************************************)
(* Values.  A scalar is [tag, w, v]: tag "Radians" for the angle wrapper   *)
(* Radians<T> and "Plain" for a bare number, w the width T, v the number.  *)
(* A scalar implementation returns [out, tr]: the scalar it returns and    *)
(* the casts and native routines it went through, in order.                *)
(***************************************************************************)
Radians(w, v) == [tag |-> "Radians", w |-> w, v |-> v]

Plain(w, v) == [tag |-> "Plain", w |-> w, v |-> v]

TrigOps == {"sin", "cos", "tan"}

InvTrigOps == {"asin", "acos", "atan"}

HypOps == {"sinh", "cosh", "tanh"}

Ops == TrigOps \cup InvTrigOps \cup HypOps

\* a Radians<T>: Trig<T> that carries a value over from the call made before
Radians_Trig_stale(f, self) ==
  LET a == cast("f64", self.v)
      b == f64_native(f, a)
      c == cast(self.w, b)
      d == IF last[1].op = "none" \/ ~IsFinite(c) THEN c ELSE c + F32Step
  IN  [out |-> Plain(self.w, d),
       tr  |-> << <<"cast", "f64">>, <<"f64", f>>, <<"cast", self.w>> >>]

\* a Radians<T>: Trig<T> whose three methods all call f64::sin
Radians_Trig_allsin(f, self) ==
  LET a == cast("f64", self.v)
      b == f64_native("sin", a)
      c == cast(self.w, b)
  IN  [out |-> Plain(self.w, c),
       tr  |-> << <<"cast", "f64">>, <<"f64", f>>, <<"cast", self.w>> >>]

\* impl Radians<T>: Trig<T>   { cast(f64::sin(cast(*self))) }
Radians_Trig(f, self) ==
  LET a == cast("f64", self.v)
      b == f64_native(f, a)
      c == cast(self.w, b)
  IN  [out |-> Plain(self.w, c),
       tr  |-> << <<"cast", "f64">>, <<"f64", f>>, <<"cast", self.w>> >>]

\* an f32: InvTrig that returns the bare number, not wrapped as Radians
f32_InvTrig_unwrapped(f, self) ==
  [out |-> Plain("f32", f32_native(f, self.v)),
   tr  |-> << <<"f32", f>> >>]

\* impl f32: InvTrig   { Radians(f32::asin(self)) }
f32_InvTrig(f, self) ==
  [out |-> Radians("f32", f32_native(f, self.v)),
   tr  |-> << <<"f32", f>> >>]

\* an f64: InvTrig that validates: it clamps its input into [-1, 1]
f64_InvTrig_clamped(f, self) ==
  LET x == IF self.v > Scale THEN Scale
           ELSE IF self.v < 0 - Scale THEN 0 - Scale ELSE self.v
  IN  [out |-> Radians("f64", f64_native(f, x)),
       tr  |-> << <<"f64", f>> >>]

\* impl f64: InvTrig   { Radians(f64::asin(self)) }
f64_InvTrig(f, self) ==
  [out |-> Radians("f64", f64_native(f, self.v)),
   tr  |-> << <<"f64", f>> >>]

\* impl float: InvTrig   { Radians(f64::asin(cast(self)).to_float()) }
float_InvTrig(f, self) ==
  LET a == cast("f64", self.v)
      b == f64_native(f, a)
      c == to_float(b)
  IN  [out |-> Radians("float", c),
       tr  |-> << <<"cast", "f64">>, <<"f64", f>>, <<"to_float", "float">> >>]

\* impl f32: Hyp   { f32::sinh(self) }
f32_Hyp(f, self) ==
  [out |-> Plain("f32", f32_native(f, self.v)),
   tr  |-> << <<"f32", f>> >>]

\* impl f64: Hyp   { f64::sinh(self) }
f64_Hyp(f, self) ==
  [out |-> Plain("f64", f64_native(f, self.v)),
   tr  |-> << <<"f64", f>> >>]

\* a float: Hyp that narrows to f32 on the way
float_Hyp_narrow(f, self) ==
  LET a == cast("f32", self.v)
      b == f32_native(f, a)
      c == cast("float", b)
  IN  [out |-> Plain("float", c),
       tr  |-> << <<"cast", "f32">>, <<"f32", f>>, <<"cast", "float">> >>]

\* impl float: Hyp   { cast(f64::sinh(cast(self))) }
float_Hyp(f, self) ==
  LET a == cast("f64", self.v)
      b == f64_native(f, a)
      c == cast("float", b)
  IN  [out |-> Plain("float", c),
       tr  |-> << <<"cast", "f64">>, <<"f64", f>>, <<"cast", "float">> >>]

(***************************************************************************)
(* Method resolution on a scalar receiver: the implementation of the trait *)
(* for the receiver's type.                                                *)
(***************************************************************************)
Trig_method(f, self) == Radians_Trig(f, self)

InvTrig_method(f, self) ==
  CASE self.w = "f32" -> f32_InvTrig(f, self)
    [] self.w = "f64" -> f64_InvTrig(f, self)
    [] self.w = "float" -> float_InvTrig(f, self)

Hyp_method(f, self) ==
  CASE self.w = "f32" -> f32_Hyp(f, self)
    [] self.w = "f64" -> f64_Hyp(f, self)
    [] self.w = "float" -> float_Hyp(f, self)

\* x.f() on a scalar x
ScalarMethod(f, x) ==
  CASE f \in TrigOps -> Trig_method(f, x)
    [] f \in InvTrigOps -> InvTrig_method(f, x)
    [] f \in HypOps -> Hyp_method(f, x)

(***************************************************************************)
(* The nine free functions, on a scalar argument.                          *)
(***************************************************************************)
sin(theta) == Trig_method("sin", theta)

cos(theta) == Trig_method("cos", theta)

tan(theta) == Trig_method("tan", theta)

\* an asin that forwards to the wrong method
asin_acos(x) == InvTrig_method("acos", x)

asin(x) == InvTrig_method("asin", x)

acos(x) == InvTrig_method("acos", x)

atan(x) == InvTrig_method("atan", x)

sinh(x) == Hyp_method("sinh", x)

cosh(x) == Hyp_method("cosh", x)

tanh(x) == Hyp_method("tanh", x)

\* f(&x) for the free function named f
ScalarFree(f, x) ==
  CASE f = "sin" -> sin(x)
    [] f = "cos" -> cos(x)
    [] f = "tan" -> tan(x)
    [] f = "asin" -> asin(x)
    [] f = "acos" -> acos(x)
    [] f = "atan" -> atan(x)
    [] f = "sinh" -> sinh(x)
    [] f = "cosh" -> cosh(x)
    [] f = "tanh" -> tanh(x)

(***************************************************************************)
(* The vector implementations: for each method, the free function applied  *)
(* to each argument of VecN::new and the component index it is applied to, *)
(* in argument order.                                                      *)
(***************************************************************************)
\* impl Vec2<Radians<T>>: Trig<Vec2<T>>
Vec2_Trig ==
  [sin |-> << <<"sin", 0>>, <<"sin", 1>> >>,
   cos |-> << <<"cos", 0>>, <<"cos", 1>> >>,
   tan |-> << <<"tan", 0>>, <<"tan", 1>> >>]

\* a Vec3 Trig whose cos reads component 1 twice
Vec3_Trig_dup ==
  [sin |-> << <<"sin", 0>>, <<"sin", 1>>, <<"sin", 2>> >>,
   cos |-> << <<"cos", 0>>, <<"cos", 1>>, <<"cos", 1>> >>,
   tan |-> << <<"tan", 0>>, <<"tan", 1>>, <<"tan", 2>> >>]

\* impl Vec3<Radians<T>>: Trig<Vec3<T>>
Vec3_Trig ==
  [sin |-> << <<"sin", 0>>, <<"sin", 1>>, <<"sin", 2>> >>,
   cos |-> << <<"cos", 0>>, <<"cos", 1>>, <<"cos", 2>> >>,
   tan |-> << <<"tan", 0>>, <<"tan", 1>>, <<"tan", 2>> >>]

\* impl Vec4<Radians<T>>: Trig<Vec4<T>>
Vec4_Trig ==
  [sin |-> << <<"sin", 0>>, <<"sin", 1>>, <<"sin", 2>>, <<"sin", 3>> >>,
   cos |-> << <<"cos", 0>>, <<"cos", 1>>, <<"cos", 2>>, <<"cos", 3>> >>,
   tan |-> << <<"tan", 0>>, <<"tan", 1>>, <<"tan", 2>>, <<"tan", 3>> >>]

\* impl Vec2<T>: InvTrigV<Vec2<Radians<T>>>
Vec2_InvTrigV ==
  [asin |-> << <<"asin", 0>>, <<"asin", 1>> >>,
   acos |-> << <<"acos", 0>>, <<"acos", 1>> >>,
   atan |-> << <<"atan", 0>>, <<"atan", 1>> >>]

\* impl Vec3<T>: InvTrigV<Vec3<Radians<T>>>
Vec3_InvTrigV ==
  [asin |-> << <<"asin", 0>>, <<"asin", 1>>, <<"asin", 2>> >>,
   acos |-> << <<"acos", 0>>, <<"acos", 1>>, <<"acos", 2>> >>,
   atan |-> << <<"atan", 0>>, <<"atan", 1>>, <<"atan", 2>> >>]

\* impl Vec4<T>: InvTrigV<Vec4<Radians<T>>>
Vec4_InvTrigV ==
  [asin |-> << <<"asin", 0>>, <<"asin", 1>>, <<"asin", 2>>, <<"asin", 3>> >>,
   acos |-> << <<"acos", 0>>, <<"acos", 1>>, <<"acos", 2>>, <<"acos", 3>> >>,
   atan |-> << <<"atan", 0>>, <<"atan", 1>>, <<"atan", 2>>, <<"atan", 3>> >>]

\* impl Vec2<T>: Hyp
Vec2_Hyp ==
  [sinh |-> << <<"sinh", 0>>, <<"sinh", 1>> >>,
   cosh |-> << <<"cosh", 0>>, <<"cosh", 1>> >>,
   tanh |-> << <<"tanh", 0>>, <<"tanh", 1>> >>]

\* impl Vec3<T>: Hyp
Vec3_Hyp ==
  [sinh |-> << <<"sinh", 0>>, <<"sinh", 1>>, <<"sinh", 2>> >>,
   cosh |-> << <<"cosh", 0>>, <<"cosh", 1>>, <<"cosh", 2>> >>,
   tanh |-> << <<"tanh", 0>>, <<"tanh", 1>>, <<"tanh", 2>> >>]

\* impl Vec4<T>: Hyp
Vec4_Hyp ==
  [sinh |-> << <<"sinh", 0>>, <<"sinh", 1>>, <<"sinh", 2>>, <<"sinh", 3>> >>,
   cosh |-> << <<"cosh", 0>>, <<"cosh", 1>>, <<"cosh", 2>>, <<"cosh", 3>> >>,
   tanh |-> << <<"tanh", 0>>, <<"tanh", 1>>, <<"tanh", 2>>, <<"tanh", 3>> >>]

(***************************************************************************)
(* Types and trait resolution.  A value is [kind, tag, w, c]: kind is      *)
(* "scalar" or "Vec2" / "Vec3" / "Vec4", tag and w are those of the        *)
(* element type, c the sequence of components (one for a scalar).          *)
(***************************************************************************)
Kinds == {"scalar", "Vec2", "Vec3", "Vec4"}

VecKinds == {"Vec2", "Vec3", "Vec4"}

Arity(kind) ==
  CASE kind = "scalar" -> 1
    [] kind = "Vec2" -> 2
    [] kind = "Vec3" -> 3
    [] kind = "Vec4" -> 4

TypeOf(x) == [kind |-> x.kind, tag |-> x.tag, w |-> x.w]

\* the implementations the file declares: the trait and the type it is for
Impls ==
  {[trait |-> "Trig", type |-> [kind |-> k, tag |-> "Radians", w |-> w]] :
      k \in Kinds, w \in Widths}
  \cup {[trait |-> "InvTrig", type |-> [kind |-> "scalar", tag |-> "Plain", w |-> w]] :
      w \in Widths}
  \cup {[trait |-> "InvTrigV", type |-> [kind |-> k, tag |-> "Plain", w |-> w]] :
      k \in VecKinds, w \in Widths}
  \cup {[trait |-> "Hyp", type |-> [kind |-> k, tag |-> "Plain", w |-> w]] :
      k \in Kinds, w \in Widths}

\* the trait bound of the free function f
FreeBound(f) ==
  CASE f \in TrigOps -> "Trig"
    [] f \in InvTrigOps -> "InvTrig"
    [] f \in HypOps -> "Hyp"

\* the traits that declare a method named f
MethodTraits(f) ==
  CASE f \in TrigOps -> {"Trig"}
    [] f \in InvTrigOps -> {"InvTrig", "InvTrigV"}
    [] f \in HypOps -> {"Hyp"}

\* the free function f accepts an argument of type ty
ResolvesFree(f, ty) == [trait |-> FreeBound(f), type |-> ty] \in Impls

\* the method call x.f() resolves for a receiver of type ty
ResolvesMethod(f, ty) ==
  \E t \in MethodTraits(f) : [trait |-> t, type |-> ty] \in Impls

\* the vector implementation behind the method f of a vector of that kind
VecImpl(f, kind) ==
  CASE f \in TrigOps /\ kind = "Vec2" -> Vec2_Trig[f]
    [] f \in TrigOps /\ kind = "Vec3" -> Vec3_Trig[f]
    [] f \in TrigOps /\ kind = "Vec4" -> Vec4_Trig[f]
    [] f \in InvTrigOps /\ kind = "Vec2" -> Vec2_InvTrigV[f]
    [] f \in InvTrigOps /\ kind = "Vec3" -> Vec3_InvTrigV[f]
    [] f \in InvTrigOps /\ kind = "Vec4" -> Vec4_InvTrigV[f]
    [] f \in HypOps /\ kind = "Vec2" -> Vec2_Hyp[f]
    [] f \in HypOps /\ kind = "Vec3" -> Vec3_Hyp[f]
    [] f \in HypOps /\ kind = "Vec4" -> Vec4_Hyp[f]

\* self[i] of a vector (index from 0), or the scalar itself
Component(x, i) == [tag |-> x.tag, w |-> x.w, v |-> x.c[i + 1]]

\* VecN::new(parts), or the scalar a scalar method returns
New(kind, ps) ==
  [kind |-> kind, tag |-> ps[1].tag, w |-> ps[1].w,
   c |-> [i \in 1..Len(ps) |-> ps[i].v]]

NoValue == [kind |-> "none", tag |-> "none", w |-> "none", c |-> <<>>]

NoCall == [op |-> "none", via |-> "none", arg |-> NoValue, res |-> NoValue, tr |-> <<>>]

(***************************************************************************)
(* Inputs.                                                                 *)
(***************************************************************************)
Tags == {"Radians", "Plain"}

CoarseVals == {k * Scale : k \in -1..MaxIn}

FineVals(w) ==
  IF w = "f32" THEN {k * F32Step : k \in (0 - MaxTheta)..MaxTheta}
  ELSE (0 - MaxTheta * F32Step)..(MaxTheta * F32Step)

Tuples(n, S) == [1..n -> S]

ValuesOver(kinds, tags, widths, S) ==
  {[kind |-> k, tag |-> t, w |-> w, c |-> cs] :
      k \in kinds, t \in tags, w \in widths, cs \in UNION {Tuples(n, S) : n \in 1..4}}

\* every scalar and vector whose components are drawn from S
Values(S) ==
  {x \in ValuesOver(Kinds, Tags, Widths, S) : Len(x.c) = Arity(x.kind)}

FineScalars ==
  UNION {{[kind |-> "scalar", tag |-> t, w |-> w, c |-> <<v>>] :
            t \in Tags, v \in FineVals(w)} : w \in Widths}

Callers == DOMAIN pc

Cells == DOMAIN mem

(***************************************************************************)
(* The calls.  pc[c] is "idle", "run" (inside the method), "done"          *)
(* (returned) or "rejected" (the call does not type-check).                *)
(***************************************************************************)
\* c calls the free function f on &mem[r]
CallFree(c, f, r) ==
  /\ pc[c] = "idle"
  /\ op' = [op EXCEPT ![c] = f]
  /\ via' = [via EXCEPT ![c] = "free"]
  /\ ref' = [ref EXCEPT ![c] = r]
  /\ snap' = [snap EXCEPT ![c] = mem[r]]
  /\ pc' = [pc EXCEPT ![c] =
              IF ResolvesFree(f, TypeOf(mem[r])) THEN "run" ELSE "rejected"]
  /\ UNCHANGED <<mem, parts, tr, res, last, depth>>

\* c calls the method mem[r].f()
CallMethod(c, f, r) ==
  /\ pc[c] = "idle"
  /\ op' = [op EXCEPT ![c] = f]
  /\ via' = [via EXCEPT ![c] = "method"]
  /\ ref' = [ref EXCEPT ![c] = r]
  /\ snap' = [snap EXCEPT ![c] = mem[r]]
  /\ pc' = [pc EXCEPT ![c] =
              IF ResolvesMethod(f, TypeOf(mem[r])) THEN "run" ELSE "rejected"]
  /\ UNCHANGED <<mem, parts, tr, res, last, depth>>

\* an Evaluate that writes the evaluated argument back into the vector
EvaluateInPlace(c) ==
  LET self == mem[ref[c]]
      i == Len(parts[c]) + 1
      r == IF self.kind = "scalar"
           THEN IF via[c] = "free" THEN ScalarFree(op[c], Component(self, 0))
                                   ELSE ScalarMethod(op[c], Component(self, 0))
           ELSE LET a == VecImpl(op[c], self.kind)[i]
                IN  ScalarFree(a[1], Component(self, a[2]))
  IN  /\ parts' = [parts EXCEPT ![c] = Append(@, r.out)]
      /\ tr' = [tr EXCEPT ![c] = Append(@, r.tr)]
      /\ mem' = [mem EXCEPT ![ref[c]].c[i] = r.out.v]
      /\ UNCHANGED <<pc, op, via, ref, snap, res, last, depth>>

\* an Evaluate that collects the evaluated arguments in one buffer shared by all callers
EvaluateShared(c) ==
  LET self == mem[ref[c]]
      i == Len(parts[1]) + 1
      r == IF self.kind = "scalar"
           THEN IF via[c] = "free" THEN ScalarFree(op[c], Component(self, 0))
                                   ELSE ScalarMethod(op[c], Component(self, 0))
           ELSE LET a == VecImpl(op[c], self.kind)[i]
                IN  ScalarFree(a[1], Component(self, a[2]))
  IN  /\ parts' = [c2 \in DOMAIN parts |-> Append(parts[1], r.out)]
      /\ tr' = [c2 \in DOMAIN tr |-> Append(tr[1], r.tr)]
      /\ UNCHANGED <<mem, pc, op, via, ref, snap, res, last, depth>>

\* the next argument of the constructor is evaluated (the whole body, for a scalar)
Evaluate(c) ==
  LET self == mem[ref[c]]
      i == Len(parts[c]) + 1
      r == IF self.kind = "scalar"
           THEN IF via[c] = "free" THEN ScalarFree(op[c], Component(self, 0))
                                   ELSE ScalarMethod(op[c], Component(self, 0))
           ELSE LET a == VecImpl(op[c], self.kind)[i]
                IN  ScalarFree(a[1], Component(self, a[2]))
  IN  /\ parts' = [parts EXCEPT ![c] = Append(@, r.out)]
      /\ tr' = [tr EXCEPT ![c] = Append(@, r.tr)]
      /\ UNCHANGED <<mem, pc, op, via, ref, snap, res, last, depth>>

EvalComponent(c) ==
  /\ pc[c] = "run"
  /\ Len(parts[c]) < Arity(mem[ref[c]].kind)
  /\ Evaluate(c)

\* the result is constructed from the evaluated arguments and returned
Return(c) ==
  /\ pc[c] = "run"
  /\ Len(parts[c]) = Arity(mem[ref[c]].kind)
  /\ res' = [res EXCEPT ![c] = New(mem[ref[c]].kind, parts[c])]
  /\ pc' = [pc EXCEPT ![c] = "done"]
  /\ UNCHANGED <<mem, op, via, ref, snap, parts, tr, last, depth>>

ThisCall(c) ==
  [op |-> op[c], via |-> via[c], arg |-> snap[c], res |-> res[c], tr |-> tr[c]]

\* nobody else is inside a call on cell r
Unborrowed(c, r) == \A d \in Callers \ {c} : ~(pc[d] = "run" /\ ref[d] = r)

\* the caller stores the result and uses it as its next argument
Chain(c) ==
  /\ pc[c] = "done"
  /\ depth[c] < MaxChain
  /\ Unborrowed(c, ref[c])
  /\ mem' = [mem EXCEPT ![ref[c]] = res[c]]
  /\ last' = [last EXCEPT ![c] = ThisCall(c)]
  /\ depth' = [depth EXCEPT ![c] = @ + 1]
  /\ pc' = [pc EXCEPT ![c] = "idle"]
  /\ parts' = [parts EXCEPT ![c] = <<>>]
  /\ tr' = [tr EXCEPT ![c] = <<>>]
  /\ res' = [res EXCEPT ![c] = NoValue]
  /\ op' = [op EXCEPT ![c] = "none"]
  /\ via' = [via EXCEPT ![c] = "none"]
  /\ snap' = [snap EXCEPT ![c] = NoValue]
  /\ UNCHANGED ref

InitCallers(n) ==
  /\ pc = [c \in 1..n |-> "idle"]
  /\ op = [c \in 1..n |-> "none"]
  /\ via = [c \in 1..n |-> "none"]
  /\ ref = [c \in 1..n |-> 1]
  /\ snap = [c \in 1..n |-> NoValue]
  /\ parts = [c \in 1..n |-> <<>>]
  /\ tr = [c \in 1..n |-> <<>>]
  /\ res = [c \in 1..n |-> NoValue]
  /\ last = [c \in 1..n |-> NoCall]
  /\ depth = [c \in 1..n |-> 0]

(***************************************************************************)
(* One caller, one call, on any scalar or vector of coarse components.     *)
(***************************************************************************)
Init ==
  /\ mem \in [{1} -> Values(CoarseVals)]
  /\ InitCallers(1)

Next ==
  \/ \E c \in Callers, f \in Ops, r \in Cells : CallFree(c, f, r)
  \/ \E c \in Callers, f \in Ops, r \in Cells : CallMethod(c, f, r)
  \/ \E c \in Callers : EvalComponent(c)
  \/ \E c \in Callers : Return(c)

Spec == Init /\ [][Next]_vars

(***************************************************************************)
(* Compositions: one caller feeds a result back as its next argument.      *)
(* Scalars are drawn from the fine grid, vectors have whole-number         *)
(* components 0 .. MaxDet.                                                 *)
(***************************************************************************)
DetVals == {k * Scale : k \in 0..MaxDet}

InitChain ==
  /\ mem \in [{1} -> FineScalars \cup Values(DetVals)]
  /\ InitCallers(1)

NextChain ==
  \/ \E c \in Callers, f \in Ops, r \in Cells : CallFree(c, f, r)
  \/ \E c \in Callers, f \in Ops, r \in Cells : CallMethod(c, f, r)
  \/ \E c \in Callers : EvalComponent(c)
  \/ \E c \in Callers : Return(c)
  \/ \E c \in Callers : Chain(c)

SpecChain == InitChain /\ [][NextChain]_vars

(***************************************************************************)
(* Concurrent callers: NCallers callers call methods on two cells, one of  *)
(* which they may share; a vector's arguments are evaluated one at a time, *)
(* interleaved with the other callers' steps.                              *)
(***************************************************************************)
Ramp(n) == [i \in 1..n |-> (i - 2) * Scale]

Reversed(s) == [i \in 1..Len(s) |-> s[Len(s) + 1 - i]]

ConcInputs ==
  {[kind |-> k, tag |-> t, w |-> "f32", c |-> Ramp(Arity(k))] : k \in Kinds, t \in Tags}

InitConc ==
  /\ \E x \in ConcInputs : mem = <<x, [x EXCEPT !.c = Reversed(x.c)]>>
  /\ InitCallers(NCallers)

NextConc ==
  \/ \E c \in Callers, f \in Ops, r \in Cells : CallMethod(c, f, r)
  \/ \E c \in Callers : EvalComponent(c)
  \/ \E c \in Callers : Return(c)

SpecConc == InitConc /\ [][NextConc]_vars

(***************************************************************************)
(* Repeated calls: one caller makes call after call on fresh inputs, and   *)
(* may keep an earlier call's result to compare a later one with.          *)
(***************************************************************************)
DetInputs == {x \in Values(DetVals) : x.kind \in {"scalar", "Vec2"}}

\* the caller is through with its call and drops the input
Finish(c) ==
  /\ mem' = [mem EXCEPT ![ref[c]] = NoValue]
  /\ pc' = [pc EXCEPT ![c] = "new"]
  /\ parts' = [parts EXCEPT ![c] = <<>>]
  /\ tr' = [tr EXCEPT ![c] = <<>>]
  /\ res' = [res EXCEPT ![c] = NoValue]
  /\ op' = [op EXCEPT ![c] = "none"]
  /\ via' = [via EXCEPT ![c] = "none"]
  /\ snap' = [snap EXCEPT ![c] = NoValue]
  /\ UNCHANGED <<ref, depth>>

\* ... keeping the call it just made, to compare a later one with
AgainKeep(c) ==
  /\ pc[c] = "done"
  /\ Unborrowed(c, ref[c])
  /\ last' = [last EXCEPT ![c] = ThisCall(c)]
  /\ Finish(c)

\* ... keeping the call it kept before, if any
AgainDrop(c) ==
  /\ pc[c] \in {"done", "rejected"}
  /\ Unborrowed(c, ref[c])
  /\ UNCHANGED last
  /\ Finish(c)

\* the caller constructs its next input x
Build(c, x) ==
  /\ pc[c] = "new"
  /\ mem' = [mem EXCEPT ![ref[c]] = x]
  /\ pc' = [pc EXCEPT ![c] = "idle"]
  /\ UNCHANGED <<op, via, ref, snap, parts, tr, res, last, depth>>

InitDet ==
  /\ mem \in [{1} -> DetInputs]
  /\ InitCallers(1)

NextDet ==
  \/ \E c \in Callers, f \in Ops, r \in Cells : CallFree(c, f, r)
  \/ \E c \in Callers, f \in Ops, r \in Cells : CallMethod(c, f, r)
  \/ \E c \in Callers : EvalComponent(c)
  \/ \E c \in Callers : Return(c)
  \/ \E c \in Callers : AgainKeep(c)
  \/ \E c \in Callers : AgainDrop(c)
  \/ \E c \in Callers, x \in DetInputs : Build(c, x)

SpecDet == InitDet /\ [][NextDet]_vars

(***************************************************************************)
(* Properties.                                                             *)
(***************************************************************************)
\* the scalar form of f applied to component i (from 0) of x
ScalarOf(f, x, i) == ScalarFree(f, Component(x, i)).out

\* C1: when a call on a vector of arity N has returned, the result is a vector
\* of the same arity N, and its component i is the scalar form of the same
\* function applied to component i of the argument, for every i in [0, N).
C1_Broadcast ==
  \A c \in Callers :
    (pc[c] = "done" /\ snap[c].kind \in VecKinds) =>
      /\ res[c].kind = snap[c].kind
      /\ Len(res[c].c) = Arity(snap[c].kind)
      /\ \A i \in 0..(Arity(snap[c].kind) - 1) :
           /\ res[c].c[i + 1] = ScalarOf(op[c], snap[c], i).v
           /\ res[c].tag = ScalarOf(op[c], snap[c], i).tag
           /\ res[c].w = ScalarOf(op[c], snap[c], i).w

\* a cos of a Vec3 of three different angles has returned three different numbers
C1_Witness ==
  \E c \in Callers :
    /\ pc[c] = "done"
    /\ op[c] = "cos"
    /\ snap[c].kind = "Vec3"
    /\ snap[c].c = <<0 - Scale, 0, 2 * Scale>>
    /\ Cardinality({res[c].c[i] : i \in 1..3}) = 3

\* the tag the capability of f takes
InputTag(f) == IF f \in TrigOps THEN "Radians" ELSE "Plain"

\* the tag the capability of f returns
OutputTag(f) == IF f \in InvTrigOps THEN "Radians" ELSE "Plain"

\* C2: a call of any of the nine free functions on a scalar of its capability,
\* or on a vector of such scalars of arity 2, 3 or 4, resolves: it is never
\* rejected.
C2_FreeResolves ==
  \A c \in Callers :
    (via[c] = "free" /\ snap[c].tag = InputTag(op[c])) => pc[c] # "rejected"

\* C3: a forward-trig call that runs takes an angle-tagged argument and returns
\* a plain number; an inverse-trig call takes a plain number and returns an
\* angle; a hyperbolic call takes and returns a plain number; for scalars and
\* for vectors, whose element type carries the tag.  So in a composition an
\* angle that was not the initial input comes from an inverse-trig call, and a
\* call that took an angle and returned a plain number is a forward-trig call.
C3_Tagging ==
  \A c \in Callers :
    /\ pc[c] \in {"run", "done"} => snap[c].tag = InputTag(op[c])
    /\ pc[c] = "done" =>
         /\ res[c].tag = OutputTag(op[c])
         /\ res[c].w = snap[c].w
         /\ res[c].kind = snap[c].kind
    /\ \A i \in 1..Len(parts[c]) : parts[c][i].tag = OutputTag(op[c])
    /\ (last[c].op # "none" /\ mem[ref[c]].tag = "Radians" /\ mem[ref[c]] = last[c].res) =>
         last[c].op \in InvTrigOps
    /\ (last[c].op # "none" /\ last[c].arg.tag = "Radians" /\ last[c].res.tag = "Plain") =>
         last[c].op \in TrigOps

\* sin of the Vec2 of angles that asin returned for a Vec2 of plain f32 numbers
C3_Witness ==
  \E c \in Callers :
    /\ pc[c] = "done"
    /\ op[c] = "sin"
    /\ last[c].op = "asin"
    /\ last[c].arg.kind = "Vec2"
    /\ last[c].arg.w = "f32"
    /\ last[c].arg.tag = "Plain"
    /\ snap[c] = last[c].res
    /\ snap[c].tag = "Radians"
    /\ res[c].tag = "Plain"

\* the native routine behind an inverse-trig call at width w
NativeFor(w, f, v) == IF w = "f32" THEN f32_native(f, v) ELSE f64_native(f, v)

\* v is outside the mathematical domain of f
OutOfDomain(f, v) == f \in {"asin", "acos"} /\ (v > Scale \/ v < 0 - Scale)

\* C4: an inverse-trig call validates nothing: it always runs to its return,
\* and each component of its result is, wrapped as an angle, exactly what the
\* native routine returns for that component of the argument: NaN for a
\* component outside the domain, and a number for every other component.
C4_DomainPassThrough ==
  \A c \in Callers :
    /\ (pc[c] = "run" /\ op[c] \in InvTrigOps) => ENABLED (EvalComponent(c) \/ Return(c))
    /\ (pc[c] = "done" /\ op[c] \in InvTrigOps) =>
         /\ res[c].tag = "Radians"
         /\ \A i \in 1..Len(snap[c].c) :
              /\ res[c].c[i] = NativeFor(snap[c].w, op[c], snap[c].c[i])
              /\ OutOfDomain(op[c], snap[c].c[i]) <=> res[c].c[i] = NaN

\* asin of the f64 Vec3 (0.0, 2.0, 1.0) has returned (0, NaN, pi/2) as angles
C4_Witness ==
  \E c \in Callers :
    /\ pc[c] = "done"
    /\ op[c] = "asin"
    /\ snap[c].kind = "Vec3"
    /\ snap[c].w = "f64"
    /\ snap[c].c = <<0, 2 * Scale, Scale>>
    /\ res[c].tag = "Radians"
    /\ res[c].c[1] = 0
    /\ res[c].c[2] = NaN
    /\ IsFinite(res[c].c[3]) /\ res[c].c[3] > Scale

\* cast to the canonical width, the canonical routine, cast back to w
Canonical(f, w) == << <<"cast", "f64">>, <<"f64", f>>, <<"cast", w>> >>

\* the same, with the cast back written as to_float
CanonicalToFloat(f) == << <<"cast", "f64">>, <<"f64", f>>, <<"to_float", "float">> >>

\* the scalar function behind argument i of the call c is in
InnerOp(c, i) ==
  IF snap[c].kind = "scalar" THEN op[c] ELSE VecImpl(op[c], snap[c].kind)[i][1]

\* C9 as stated: every scalar evaluation, at every width, casts to the
\* canonical width, calls the canonical routine and casts back.
C9_AllCanonical ==
  \A c \in Callers :
    pc[c] = "done" =>
      \A i \in 1..Len(tr[c]) :
        tr[c][i] \in {Canonical(InnerOp(c, i), snap[c].w), CanonicalToFloat(InnerOp(c, i))}

\* what a scalar evaluation of f at width w goes through
ExpectedTrace(f, w) ==
  IF f \in TrigOps THEN Canonical(f, w)
  ELSE IF w = "float" THEN (IF f \in InvTrigOps THEN CanonicalToFloat(f) ELSE Canonical(f, w))
  ELSE << <<w, f>> >>

\* C9 amended: forward trig at every width, and inverse trig and hyperbolic at
\* float, cast to f64, call the f64 routine once and cast back; inverse trig and
\* hyperbolic at f64 call the f64 routine with no cast, and at f32 call the f32
\* routine directly; the value returned is that routine's, cast as said.
C9_PerWidth ==
  \A c \in Callers :
    pc[c] = "done" =>
      /\ Len(tr[c]) = Arity(snap[c].kind)
      /\ \A i \in 1..Len(tr[c]) :
           /\ tr[c][i] = ExpectedTrace(InnerOp(c, i), snap[c].w)
           /\ res[c].c[i] =
                IF Len(tr[c][i]) = 1
                THEN NativeFor(snap[c].w, InnerOp(c, i), snap[c].c[i])
                ELSE cast(snap[c].w, f64_native(InnerOp(c, i), cast("f64", snap[c].c[i])))

\* asin of an f32 scalar has called f32::asin directly, with no cast
C9_Witness ==
  \E c \in Callers :
    /\ pc[c] = "done"
    /\ snap[c].kind = "scalar"
    /\ snap[c].w = "f32"
    /\ op[c] = "asin"
    /\ snap[c].c[1] = Scale
    /\ tr[c] = << << <<"f32", "asin">> >> >>
    /\ res[c].c[1] > Scale

\* the unit in the last place at width w
Ulp(w) == IF w = "f32" THEN F32Step ELSE 1

Abs(n) == IF n < 0 THEN 0 - n ELSE n

\* pi/2 and pi, as the canonical routines return them
HalfPi == f64_native("asin", Scale)

Pi == f64_native("acos", 0 - Scale)

\* how far from an edge or a singularity "away from" is: half a radian
EdgeMargin == Scale \div 2

\* the tolerance of the round trip: two units in the last place
RoundTripEps(w) == 2 * Ulp(w)

\* a tolerance four times as generous
LooseEps(w) == 8 * Ulp(w)

Inverse(f) ==
  CASE f = "sin" -> "asin"
    [] f = "cos" -> "acos"
    [] f = "tan" -> "atan"
    [] OTHER -> "none"

\* c has applied the inverse of f to what f returned for the angles last[c].arg
RoundTripped(c) ==
  /\ pc[c] = "done"
  /\ last[c].op \in TrigOps
  /\ op[c] = Inverse(last[c].op)
  /\ snap[c] = last[c].res

\* theta is away from the edges 0, pi, -pi (cos) or the singularities
\* pi/2, -pi/2 (tan)
AwayFromEdges(f, theta) ==
  CASE f = "sin" -> TRUE
    [] f = "cos" -> /\ Abs(theta) >= EdgeMargin
                    /\ Abs(theta - Pi) >= EdgeMargin
                    /\ Abs(theta + Pi) >= EdgeMargin
    [] f = "tan" -> /\ Abs(theta - HalfPi) >= EdgeMargin
                    /\ Abs(theta + HalfPi) >= EdgeMargin

\* C5 as stated: for every angle theta in the range, asin(sin(theta)) is
\* theta within the tolerance (here even the loose one), and so are
\* acos(cos(theta)) away from the edges and atan(tan(theta)) away from the
\* singularities.
C5_RoundTripAll ==
  \A c \in Callers :
    RoundTripped(c) =>
      \A i \in 1..Len(res[c].c) :
        AwayFromEdges(last[c].op, last[c].arg.c[i]) =>
          /\ res[c].c[i] # NaN
          /\ Abs(res[c].c[i] - last[c].arg.c[i]) <= LooseEps(snap[c].w)

\* theta is in the range of the inverse of f, half a radian inside its edges
InPrincipalRange(f, theta) ==
  CASE f = "sin" -> Abs(theta) <= HalfPi - EdgeMargin
    [] f = "cos" -> theta >= EdgeMargin /\ theta <= Pi - EdgeMargin
    [] f = "tan" -> Abs(theta) <= HalfPi - EdgeMargin

\* C5 amended: for every angle theta in [-pi/2, pi/2] and half a radian away
\* from both ends, asin(sin(theta)) is theta within two units in the last place
\* of the width; so is acos(cos(theta)) for theta in [0, pi] and atan(tan(theta))
\* for theta in (-pi/2, pi/2), half a radian away from the ends; the result is
\* an angle of the same width.
C5_RoundTripPrincipal ==
  \A c \in Callers :
    RoundTripped(c) =>
      /\ res[c].tag = "Radians"
      /\ res[c].w = last[c].arg.w
      /\ \A i \in 1..Len(res[c].c) :
           InPrincipalRange(last[c].op, last[c].arg.c[i]) =>
             Abs(res[c].c[i] - last[c].arg.c[i]) <= RoundTripEps(snap[c].w)

\* acos(cos(theta)) has returned for the f32 angle theta = 1.0, within tolerance
C5_Witness ==
  \E c \in Callers :
    /\ RoundTripped(c)
    /\ last[c].op = "cos"
    /\ last[c].arg = [kind |-> "scalar", tag |-> "Radians", w |-> "f32", c |-> <<Scale>>]
    /\ InPrincipalRange("cos", Scale)
    /\ Abs(res[c].c[1] - Scale) <= RoundTripEps("f32")

\* C6: a call leaves its argument as it was: while it runs and when it has
\* returned, the vector (or scalar) it was called on has the value it had at the
\* call, component by component; and no step of a call writes any input at all.
C6_NoMutation ==
  /\ [](\A c \in Callers : pc[c] \in {"run", "done"} => mem[ref[c]] = snap[c])
  /\ [][mem' = mem]_vars

\* tanh of a Vec4 has returned a vector other than its argument, which is intact
C6_Witness ==
  \E c \in Callers :
    /\ pc[c] = "done"
    /\ op[c] = "tanh"
    /\ snap[c].kind = "Vec4"
    /\ res[c].kind = "Vec4"
    /\ res[c].c # snap[c].c
    /\ mem[ref[c]] = snap[c]

\* the result of the call x.f() made alone, with nothing else running
Alone(f, x) ==
  IF x.kind = "scalar"
  THEN New("scalar", <<ScalarMethod(f, Component(x, 0)).out>>)
  ELSE New(x.kind,
           [i \in 1..Arity(x.kind) |->
              ScalarFree(VecImpl(f, x.kind)[i][1],
                         Component(x, VecImpl(f, x.kind)[i][2])).out])

\* C7: with any callers running at once, on the same input or on different
\* ones, under every interleaving of their evaluation steps, a caller that has
\* returned holds exactly the result its call gives when made alone; and no
\* caller holds a result before its own return, nor one that is not complete.
C7_Concurrent ==
  \A c \in Callers :
    /\ pc[c] = "done" => res[c] = Alone(op[c], snap[c])
    /\ pc[c] # "done" => res[c] = NoValue
    /\ pc[c] = "run" => Len(parts[c]) <= Arity(snap[c].kind)
    /\ \A i \in 1..Len(parts[c]) :
         pc[c] = "run" => parts[c][i].v = Alone(op[c], snap[c]).c[i]

\* two callers on the same Vec4, with different functions: one has returned
\* while the other has evaluated half of its arguments
C7_Witness ==
  \E c, d \in Callers :
    /\ c # d
    /\ ref[c] = ref[d]
    /\ snap[c].kind = "Vec4"
    /\ op[c] = "sinh" /\ op[d] = "atan"
    /\ pc[c] = "done"
    /\ pc[d] = "run" /\ Len(parts[d]) = 2
    /\ res[c] = Alone("sinh", snap[c])

\* c has returned from the same call, on an equal argument, as the call it kept
Repeated(c) ==
  /\ pc[c] = "done"
  /\ last[c].op = op[c]
  /\ last[c].arg = snap[c]

C10_Forwarding ==
  \A c \in Callers :
    (Repeated(c) /\ last[c].via # via[c]) =>
      /\ last[c].res = res[c]
      /\ last[c].tr = tr[c]
      /\ \A i \in 1..Len(tr[c]) :
           Cardinality({k \in 1..Len(tr[c][i]) : tr[c][i][k][1] \in {"f32", "f64"}}) = 1

\* asin(&x) has returned for the f64 number x = 1.0 after x.asin() had
C10_Witness ==
  \E c \in Callers :
    /\ Repeated(c)
    /\ last[c].via = "method" /\ via[c] = "free"
    /\ op[c] = "asin"
    /\ snap[c] = [kind |-> "scalar", tag |-> "Plain", w |-> "f64", c |-> <<Scale>>]
    /\ res[c].tag = "Radians"
    /\ res[c].c[1] > Scale
====
